---- MODULE Spec2Model ----
(***************************************************************************)
(* Model of ForgedOperator (entanglement_forging/core/forged_operator.py): *)
(* the constructor, which obtains the one-body operator and the Cholesky   *)
(* factor operators and then checks the electron counts, and construct(),  *)
(* which aggregates the Pauli terms of those operators into the label      *)
(* lists tensor_paulis / superpos_paulis and the matrices w_ij / w_ab.     *)
(*                                                                         *)
(* A Pauli label is a sequence of the characters "I","X","Y","Z".  A       *)
(* weight is a complex number <<re, im>> with integer parts.  An operator  *)
(* is the list op.primitive.to_list() of <<label, weight>> terms.  A       *)
(* Python dict is the sequence of its <<key, value>> items in insertion    *)
(* order.  A matrix is a function of a 0-based row index giving a function *)
(* of a 0-based column index.                                              *)
(***************************************************************************)
EXTENDS Integers, Sequences, FiniteSets, TLC

VARIABLES
    num_alpha,          \* qmolecule.num_alpha
    num_beta,           \* qmolecule.num_beta
    fermionic_results,  \* what get_fermionic_ops_with_cholesky yields for qmolecule
    pc,                 \* "start": before ForgedOperator(...); "constructed"; "raised"
    h_1_op,             \* self.h_1_op
    h_chol_ops,         \* self.h_chol_ops
    raised,             \* exception that ended the last call, or NoException
    result,             \* value returned by the last construct() call, or None
    calls               \* construct() calls made on the instance: 0, 1, or 2 for "two or more"

vars == <<num_alpha, num_beta, fermionic_results, pc, h_1_op, h_chol_ops,
          raised, result, calls>>

\* An optional value is None or Some(x); Value(Some(x)) = x.
None == <<>>
Some(x) == <<x>>
Value(o) == o[1]

NoException == "NoException"

-----------------------------------------------------------------------------
(* Bounds of the explored inputs.                                          *)

\* Total number of Pauli terms over the one-body operator and all factors.
MaxTerms == 3
\* Length of the list h_chol_ops.
MaxFactors == 2

\* The Pauli labels of the explored operators (4 qubits).
IIII == <<"I", "I", "I", "I">>
IIZI == <<"I", "I", "Z", "I">>
IXXI == <<"I", "X", "X", "I">>

\* Terms the qubit mapper may emit: real, complex and exactly-zero weights,
\* the identity label, and one label with two different nonzero weights.
PauliTerms ==
    { <<IIII, <<3, 0>>>>, <<IIZI, <<-1, 2>>>>, <<IIZI, <<5, 0>>>>,
      <<IXXI, <<2, 0>>>>, <<IXXI, <<0, 0>>>> }

\* (num_alpha, num_beta) of the molecules explored.
ElectronCounts == { <<1, 1>>, <<2, 1>>, <<1, 2>> }

RECURSIVE SumSeq(_)
SumSeq(s) == IF s = <<>> THEN 0 ELSE s[1] + SumSeq(Tail(s))

\* Sizes of 1 + j operators holding k terms altogether.
Shapes(k, j) == { s \in [1..(j + 1) -> 0..k] : SumSeq(s) = k }

RECURSIVE SplitBy(_, _)
SplitBy(flat, shape) ==
    IF shape = <<>> THEN <<>>
    ELSE <<SubSeq(flat, 1, shape[1])>>
         \o SplitBy(SubSeq(flat, shape[1] + 1, Len(flat)), Tail(shape))

\* The 4-qubit scenario: one-body {IIII: w, IIZI: 3} and one factor
\* {IIZI: 5, IXXI: 2}, in every order of the terms and for several w.
ScenarioIdentityWeights == { <<3, 0>>, <<-4, 0>>, <<-1, 2>> }

ScenarioOneBody ==
    UNION { { << <<IIII, w>>, <<IIZI, <<3, 0>>>> >>, << <<IIZI, <<3, 0>>>>, <<IIII, w>> >> }
            : w \in ScenarioIdentityWeights }

ScenarioFactor ==
    { << <<IIZI, <<5, 0>>>>, <<IXXI, <<2, 0>>>> >>,
      << <<IXXI, <<2, 0>>>>, <<IIZI, <<5, 0>>>> >> }

\* What get_fermionic_ops_with_cholesky can yield: the DecompositionError of the
\* integral decomposer, or the one-body operator with the factor operators
\* (h_chol_ops is a list, possibly empty, or None).
DecompositionError == "DecompositionError"

Returned(h1, chol) == [error |-> NoException, h_1_op |-> h1, h_chol_ops |-> chol]

\* fr is a possible outcome of the decomposition: its error, or an operator
\* list [one-body, factor, ..., factor] of at most MaxTerms terms and
\* MaxFactors factors (h_chol_ops may be None when there is no factor), or
\* the operators of the scenario.
IsFermionicResult(fr) ==
    \/ fr = [error |-> DecompositionError, h_1_op |-> <<>>, h_chol_ops |-> None]
    \/ \E k \in 0..MaxTerms : \E j \in 0..MaxFactors : \E shape \in Shapes(k, j) :
          \E flat \in [1..k -> PauliTerms] :
             LET l == SplitBy(flat, shape)
             IN  \/ fr = Returned(l[1], Some(Tail(l)))
                 \/ j = 0 /\ fr = Returned(l[1], None)
    \/ \E a \in ScenarioOneBody : \E f \in ScenarioFactor : fr = Returned(a, Some(<<f>>))

-----------------------------------------------------------------------------
(* Python and numpy primitives used by construct().                        *)

SeqToSet(s) == { s[n] : n \in 1..Len(s) }

\* ord() of the characters of a Pauli label.
CharCode(c) ==
    CASE c = "I" -> 73 [] c = "X" -> 88 [] c = "Y" -> 89 [] c = "Z" -> 90

\* Python's s < t on strings: the first differing character decides, and a
\* proper prefix is smaller.
StrLess(s, t) ==
    \E k \in 1..Len(t) :
        /\ k - 1 <= Len(s)
        /\ \A m \in 1..(k - 1) : s[m] = t[m]
        /\ \/ k = Len(s) + 1
           \/ CharCode(s[k]) < CharCode(t[k])

\* Mutant of sorted: sorted(S, reverse=True).
RECURSIVE sorted_reversed(_)
sorted_reversed(S) ==
    IF S = {} THEN <<>>
    ELSE LET most == CHOOSE x \in S : \A y \in S \ {x} : StrLess(y, x)
         IN  <<most>> \o sorted_reversed(S \ {most})

\* list(sorted(S)) for a set S of labels.
RECURSIVE sorted(_)
sorted(S) ==
    IF S = {} THEN <<>>
    ELSE LET least == CHOOSE x \in S : \A y \in S \ {x} : StrLess(x, y)
         IN  <<least>> \o sorted(S \ {least})

\* {pname: idx for idx, pname in enumerate(lst)}[pname]
Ordering(lst, pname) == (CHOOSE n \in 1..Len(lst) : lst[n] = pname) - 1

\* np.abs(weight) > 0
AbsPositive(weight) == weight[1] # 0 \/ weight[2] # 0

\* np.real(w)
np_real(w) == w[1]

\* w_1 * w_2 on complex numbers
ComplexMul(a, b) == <<a[1] * b[1] - a[2] * b[2], a[1] * b[2] + a[2] * b[1]>>

\* np.zeros((n, n))
np_zeros(n) == [i \in 0..(n - 1) |-> [j \in 0..(n - 1) |-> 0]]

\* Mutant of AddAt: m[i, j] = v.
AddAt_Assign(m, i, j, v) == [m EXCEPT ![i][j] = v]

\* m[i, j] += v
AddAt(m, i, j, v) == [m EXCEPT ![i][j] = @ + v]

\* d[k] = v on a dict: a present key keeps its place and takes the new value.
DictPut(d, k, v) ==
    IF \E n \in 1..Len(d) : d[n][1] = k
    THEN [n \in 1..Len(d) |-> IF d[n][1] = k THEN <<k, v>> ELSE d[n]]
    ELSE Append(d, <<k, v>>)

\* list(d.keys())
DictKeys(d) == [n \in 1..Len(d) |-> d[n][1]]

-----------------------------------------------------------------------------
(* construct()                                                             *)

\* hamiltonian_ops = [self.h_1_op] + the factors, when h_chol_ops is not None
hamiltonian_ops(h1, chol) == <<h1>> \o (IF chol = None THEN <<>> ELSE Value(chol))

\* Mutant of PaulisOfOp: the comprehension without its filter.
RECURSIVE PaulisOfOp_NoFilter(_)
PaulisOfOp_NoFilter(to_list) ==
    IF to_list = <<>> THEN <<>>
    ELSE DictPut(PaulisOfOp_NoFilter(SubSeq(to_list, 1, Len(to_list) - 1)),
                 to_list[Len(to_list)][1], to_list[Len(to_list)][2])

\* {label: weight for label, weight in op.primitive.to_list() if np.abs(weight) > 0}
RECURSIVE PaulisOfOp(_)
PaulisOfOp(to_list) ==
    IF to_list = <<>> THEN <<>>
    ELSE LET before == PaulisOfOp(SubSeq(to_list, 1, Len(to_list) - 1))
             term == to_list[Len(to_list)]
         IN  IF AbsPositive(term[2]) THEN DictPut(before, term[1], term[2]) ELSE before

\* The dict of the one-body operator, then the non-empty dicts of the factors.
paulis_each_op(ops) ==
    LET each == [n \in 1..Len(ops) |-> PaulisOfOp(ops[n])]
    IN  <<each[1]>> \o SelectSeq(Tail(each), LAMBDA p : p # <<>>)

\* pnames as the loop over paulis_each_op leaves it: the keys of the last dict.
pnames(peo) == DictKeys(peo[Len(peo)])

\* 'I' * len(pnames[0])
identity_string(peo) == [k \in 1..Len(pnames(peo)[1]) |-> "I"]

\* The set tensor_paulis: the keys of every dict, and the identity string.
TensorPauliSet(peo) ==
    UNION { SeqToSet(DictKeys(peo[n])) : n \in 1..Len(peo) } \cup {identity_string(peo)}

\* Mutant of SuperposPauliSet: the test op_idx >= 0.
SuperposPauliSet_AllOps(peo) ==
    UNION { SeqToSet(DictKeys(peo[n])) : n \in 1..Len(peo) }

\* The set superpos_paulis: the keys of the dicts with op_idx > 0.
SuperposPauliSet(peo) ==
    UNION { SeqToSet(DictKeys(peo[n])) : n \in 2..Len(peo) }

\* Mutant of ProcessNonCholesky: without the H_spin-down line.
RECURSIVE ProcessNonCholesky_SpinUpOnly(_, _, _, _)
ProcessNonCholesky_SpinUpOnly(w, items, tensor, identity_idx) ==
    IF items = <<>> THEN w
    ELSE ProcessNonCholesky_SpinUpOnly(
             AddAt(w, Ordering(tensor, items[1][1]), identity_idx, np_real(items[1][2])),
             Tail(items), tensor, identity_idx)

\* Mutant of ProcessNonCholesky: the identity term is added to its cell once.
RECURSIVE ProcessNonCholesky_IdentityOnce(_, _, _, _)
ProcessNonCholesky_IdentityOnce(w, items, tensor, identity_idx) ==
    IF items = <<>> THEN w
    ELSE LET i == Ordering(tensor, items[1][1])
             up == AddAt(w, i, identity_idx, np_real(items[1][2]))
             down == IF i = identity_idx THEN up
                     ELSE AddAt(up, identity_idx, i, np_real(items[1][2]))
         IN  ProcessNonCholesky_IdentityOnce(down, Tail(items), tensor, identity_idx)

\* The loop over paulis_each_op[0].items().
RECURSIVE ProcessNonCholesky(_, _, _, _)
ProcessNonCholesky(w, items, tensor, identity_idx) ==
    IF items = <<>> THEN w
    ELSE LET i == Ordering(tensor, items[1][1])
             up == AddAt(w, i, identity_idx, np_real(items[1][2]))
             down == AddAt(up, identity_idx, i, np_real(items[1][2]))
         IN  ProcessNonCholesky(down, Tail(items), tensor, identity_idx)

\* Mutant of InnerLoop: the product w_1 * w_1.
RECURSIVE InnerLoop_SquaresFirst(_, _, _, _, _)
InnerLoop_SquaresFirst(ws, item_1, items_2, tensor, superpos) ==
    IF items_2 = <<>> THEN ws
    ELSE LET i == Ordering(tensor, item_1[1])
             a == Ordering(superpos, item_1[1])
             j == Ordering(tensor, items_2[1][1])
             b == Ordering(superpos, items_2[1][1])
             v == np_real(ComplexMul(item_1[2], item_1[2]))
         IN  InnerLoop_SquaresFirst(<<AddAt(ws[1], i, j, v), AddAt(ws[2], a, b, v)>>,
                                    item_1, Tail(items_2), tensor, superpos)

\* The loop over pname_2, w_2 for one pname_1, w_1; ws is <<w_ij, w_ab>>.
RECURSIVE InnerLoop(_, _, _, _, _)
InnerLoop(ws, item_1, items_2, tensor, superpos) ==
    IF items_2 = <<>> THEN ws
    ELSE LET i == Ordering(tensor, item_1[1])
             a == Ordering(superpos, item_1[1])
             j == Ordering(tensor, items_2[1][1])
             b == Ordering(superpos, items_2[1][1])
             v == np_real(ComplexMul(item_1[2], items_2[1][2]))
         IN  InnerLoop(<<AddAt(ws[1], i, j, v), AddAt(ws[2], a, b, v)>>,
                       item_1, Tail(items_2), tensor, superpos)

\* The loop over pname_1, w_1 of one factor.
RECURSIVE GammaLoop(_, _, _, _, _)
GammaLoop(ws, items_1, paulis_this_gamma, tensor, superpos) ==
    IF items_1 = <<>> THEN ws
    ELSE GammaLoop(InnerLoop(ws, items_1[1], paulis_this_gamma, tensor, superpos),
                   Tail(items_1), paulis_this_gamma, tensor, superpos)

\* The loop over paulis_each_op[1:].
RECURSIVE ProcessCholesky(_, _, _, _)
ProcessCholesky(ws, gammas, tensor, superpos) ==
    IF gammas = <<>> THEN ws
    ELSE ProcessCholesky(GammaLoop(ws, gammas[1], gammas[1], tensor, superpos),
                         Tail(gammas), tensor, superpos)

\* construct() raises IndexError at pnames[0] when the last dict is empty.
ConstructRaises(h1, chol) ==
    pnames(paulis_each_op(hamiltonian_ops(h1, chol))) = <<>>

\* The tuple construct() returns.
ConstructReturn(h1, chol) ==
    LET peo == paulis_each_op(hamiltonian_ops(h1, chol))
        tensor == sorted(TensorPauliSet(peo))
        superpos == sorted(SuperposPauliSet(peo))
        identity_idx == Ordering(tensor, identity_string(peo))
        one == ProcessNonCholesky(np_zeros(Len(tensor)), peo[1], tensor, identity_idx)
        ws == ProcessCholesky(<<one, np_zeros(Len(superpos))>>, Tail(peo), tensor, superpos)
    IN  [tensor_paulis |-> tensor, superpos_paulis |-> superpos,
         w_ij |-> ws[1], w_ab |-> ws[2]]

-----------------------------------------------------------------------------
(* The state machine.                                                      *)

Init ==
    /\ \E c \in ElectronCounts : num_alpha = c[1] /\ num_beta = c[2]
    /\ IsFermionicResult(fermionic_results)
    /\ pc = "start"
    /\ h_1_op = None
    /\ h_chol_ops = None
    /\ raised = NoException
    /\ result = None
    /\ calls = 0

\* ForgedOperator(qmolecule, all_orbitals_to_reduce): the decomposition runs
\* first, its operators are stored, and the electron counts are asserted last.
ForgedOperator_init ==
    /\ pc = "start"
    /\ IF fermionic_results.error # NoException
       THEN /\ pc' = "raised"
            /\ raised' = fermionic_results.error
            /\ UNCHANGED <<h_1_op, h_chol_ops>>
       ELSE /\ h_1_op' = Some(fermionic_results.h_1_op)
            /\ h_chol_ops' = fermionic_results.h_chol_ops
            /\ IF num_alpha = num_beta
               THEN pc' = "constructed" /\ raised' = NoException
               ELSE pc' = "raised" /\ raised' = "AssertionError"
    /\ UNCHANGED <<num_alpha, num_beta, fermionic_results, result, calls>>

\* Mutant of construct: hamiltonian_ops aliases self.h_chol_ops, so the call
\* leaves the one-body operator at the head of the instance's factor list.
construct_aliased ==
    /\ pc = "constructed"
    /\ calls' = IF calls < 2 THEN calls + 1 ELSE calls
    /\ h_chol_ops' = Some(hamiltonian_ops(Value(h_1_op), h_chol_ops))
    /\ IF ConstructRaises(Value(h_1_op), h_chol_ops)
       THEN raised' = "IndexError" /\ result' = None
       ELSE raised' = NoException /\ result' = Some(ConstructReturn(Value(h_1_op), h_chol_ops))
    /\ UNCHANGED <<num_alpha, num_beta, fermionic_results, pc, h_1_op>>

\* self.construct()
construct ==
    /\ pc = "constructed"
    /\ calls' = IF calls < 2 THEN calls + 1 ELSE calls
    /\ IF ConstructRaises(Value(h_1_op), h_chol_ops)
       THEN raised' = "IndexError" /\ result' = None
       ELSE raised' = NoException /\ result' = Some(ConstructReturn(Value(h_1_op), h_chol_ops))
    /\ UNCHANGED <<num_alpha, num_beta, fermionic_results, pc, h_1_op, h_chol_ops>>

Next == ForgedOperator_init \/ construct

Spec == Init /\ [][Next]_vars

-----------------------------------------------------------------------------
(* Vocabulary of the properties, stated on the inputs h_1_op / h_chol_ops   *)
(* and on the returned tuple, not on the loops of construct().             *)

\* The tuple the last construct() call returned.
R == Value(result)

\* The factor operators of the instance (none when h_chol_ops is None).
Factors == IF h_chol_ops = None THEN <<>> ELSE Value(h_chol_ops)

Zero == <<0, 0>>

\* The weight an operator gives label p: that of the last term of its list
\* with label p and nonzero weight, Zero when there is none.
WeightIn(op, p) ==
    LET at == { n \in 1..Len(op) : op[n][1] = p /\ op[n][2] # Zero }
    IN  IF at = {} THEN Zero ELSE op[CHOOSE n \in at : \A m \in at : m <= n][2]

\* Labels appearing in the terms of an operator, with any weight.
LabelsOf(op) == { op[n][1] : n \in 1..Len(op) }

\* Labels to which some factor gives a nonzero weight.
FactorLabels ==
    { p \in UNION { LabelsOf(Factors[n]) : n \in 1..Len(Factors) } :
        \E n \in 1..Len(Factors) : WeightIn(Factors[n], p) # Zero }

\* No term of nonzero weight in the one-body operator or in any factor.
NoNonzeroTerm ==
    /\ \A p \in LabelsOf(Value(h_1_op)) : WeightIn(Value(h_1_op), p) = Zero
    /\ FactorLabels = {}

\* Re(w_p * w_q)
ReProd(wp, wq) == wp[1] * wq[1] - wp[2] * wq[2]

\* Sum over the factors that give both p and q a nonzero weight of Re(w_p * w_q).
RECURSIVE PairSum(_, _, _)
PairSum(fs, p, q) ==
    IF fs = <<>> THEN 0
    ELSE (IF WeightIn(fs[1], p) # Zero /\ WeightIn(fs[1], q) # Zero
          THEN ReProd(WeightIn(fs[1], p), WeightIn(fs[1], q)) ELSE 0)
         + PairSum(Tail(fs), p, q)

Indices(m) == DOMAIN m

IsSymmetric(m) == \A i \in Indices(m) : \A j \in Indices(m) : m[i][j] = m[j][i]

IsSquare(m, n) == Indices(m) = 0..(n - 1) /\ \A i \in Indices(m) : Indices(m[i]) = 0..(n - 1)

StrictlyIncreasing(lst) == \A n \in 1..(Len(lst) - 1) : StrLess(lst[n], lst[n + 1])

\* Every reordering of the terms of one operator.
Reorderings(op) ==
    { [n \in 1..Len(op) |-> op[f[n]]] : f \in Permutations(1..Len(op)) }

RECURSIVE ReorderedLists(_)
ReorderedLists(fs) ==
    IF fs = <<>> THEN {<<>>}
    ELSE { <<h>> \o t : h \in Reorderings(fs[1]), t \in ReorderedLists(Tail(fs)) }

\* Every reordering of the list of factors.
ReorderedFactors(chol) ==
    IF chol = None THEN {None} ELSE { Some(l) : l \in Reorderings(Value(chol)) }

-----------------------------------------------------------------------------
(* Properties.                                                             *)

\* C1: whenever construct() returns, w_ij is a square matrix over the indices
\* of tensor_paulis with w_ij[i,j] = w_ij[j,i] for all i, j, and w_ab is a
\* square matrix over the indices of superpos_paulis with w_ab[a,b] = w_ab[b,a].
C1_Symmetric ==
    result # None =>
        /\ IsSquare(R.w_ij, Len(R.tensor_paulis)) /\ IsSymmetric(R.w_ij)
        /\ IsSquare(R.w_ab, Len(R.superpos_paulis)) /\ IsSymmetric(R.w_ab)

\* A return whose matrices both have a nonzero off-diagonal cell and where
\* the one-body operator put a nonzero value off the diagonal of w_ij.
C1_Witness ==
    /\ result # None
    /\ \E a \in Indices(R.w_ab) : \E b \in Indices(R.w_ab) : a # b /\ R.w_ab[a][b] # 0
    /\ \E p \in LabelsOf(Value(h_1_op)) : p # IIII /\ WeightIn(Value(h_1_op), p)[1] # 0

\* C2: whenever construct() returns, tensor_paulis holds the all-'I' label,
\* every label of superpos_paulis is in tensor_paulis and has a nonzero
\* weight in some factor, and tensor_paulis is at least as long as
\* superpos_paulis.
C2_LabelSets ==
    result # None =>
        /\ IIII \in SeqToSet(R.tensor_paulis)
        /\ SeqToSet(R.superpos_paulis) \subseteq SeqToSet(R.tensor_paulis)
        /\ SeqToSet(R.superpos_paulis) \subseteq FactorLabels
        /\ Len(R.tensor_paulis) >= Len(R.superpos_paulis)

\* A return for operators none of which gives the identity label a nonzero
\* weight, with a one-body label that no factor carries.
C2_Witness ==
    /\ result # None
    /\ WeightIn(Value(h_1_op), IIII) = Zero
    /\ IIII \notin FactorLabels
    /\ FactorLabels # {}
    /\ \E p \in LabelsOf(Value(h_1_op)) : WeightIn(Value(h_1_op), p) # Zero /\ p \notin FactorLabels

\* The failure of the assert on the electron counts is the PreconditionError.
PreconditionError == "AssertionError"

\* C3: once ForgedOperator(...) has ended, unequal electron counts mean it
\* ended with the PreconditionError, whatever the decomposition does, and
\* equal counts with a decomposition that returns mean an instance exists.
C3_PreconditionFirst ==
    pc # "start" =>
        IF num_alpha # num_beta
        THEN pc = "raised" /\ raised = PreconditionError
        ELSE fermionic_results.error = NoException => pc = "constructed"

\* C4: a construct() call (any step of an existing instance) leaves h_1_op,
\* h_chol_ops and the molecule of the instance as they were, and every call
\* after the first ends as the call before it did: the same returned tuple,
\* or the same exception.
C4_Idempotent ==
    [][pc = "constructed" =>
          /\ h_1_op' = h_1_op /\ h_chol_ops' = h_chol_ops
          /\ num_alpha' = num_alpha /\ num_beta' = num_beta
          /\ pc' = pc
          /\ calls >= 1 => (result' = result /\ raised' = raised)]_vars

\* A second call has returned, on an instance whose factor list holds a
\* factor without nonzero term beside one with two labels.
C4_Witness ==
    /\ calls = 2
    /\ result # None
    /\ \E n \in 1..Len(Factors) : \A p \in LabelsOf(Factors[n]) : WeightIn(Factors[n], p) = Zero
    /\ Cardinality(FactorLabels) >= 2

\* C5: whenever construct() returns, tensor_paulis and superpos_paulis are
\* strictly increasing in the order of Python strings, and construct()
\* returns the same two lists for every reordering of the terms inside the
\* one-body operator and inside each factor.
C5_SortedLabels ==
    result # None =>
        /\ StrictlyIncreasing(R.tensor_paulis)
        /\ StrictlyIncreasing(R.superpos_paulis)
        /\ \A h1 \in Reorderings(Value(h_1_op)) : \A fs \in ReorderedLists(Factors) :
              LET chol == IF h_chol_ops = None THEN None ELSE Some(fs)
                  peo == paulis_each_op(hamiltonian_ops(h1, chol))
              IN  /\ ~ConstructRaises(h1, chol)
                  /\ sorted(TensorPauliSet(peo)) = R.tensor_paulis
                  /\ sorted(SuperposPauliSet(peo)) = R.superpos_paulis

\* A return with three tensor labels and two superpos labels for operators
\* whose terms arrive in decreasing label order.
C5_Witness ==
    /\ result # None
    /\ Len(R.tensor_paulis) = 3
    /\ Len(R.superpos_paulis) = 2
    /\ \E n \in 1..Len(Factors) :
          Len(Factors[n]) >= 2 /\ StrLess(Factors[n][2][1], Factors[n][1][1])

\* The one-body operator has the nonzero terms IIII (any weight) and IIZI: 3,
\* and the factor list is one factor with the nonzero terms IIZI: 5, IXXI: 2.
IsScenario ==
    /\ pc = "constructed"
    /\ WeightIn(Value(h_1_op), IIII) # Zero
    /\ WeightIn(Value(h_1_op), IIZI) = <<3, 0>>
    /\ WeightIn(Value(h_1_op), IXXI) = Zero
    /\ Len(Factors) = 1
    /\ WeightIn(Factors[1], IIII) = Zero
    /\ WeightIn(Factors[1], IIZI) = <<5, 0>>
    /\ WeightIn(Factors[1], IXXI) = <<2, 0>>

\* C6: in the scenario construct() returns tensor_paulis = [IIII, IIZI, IXXI],
\* superpos_paulis = [IIZI, IXXI], w_ij[IIZI,IIII] = w_ij[IIII,IIZI] = 3, and
\* in w_ij and in w_ab the cell (IIZI,IIZI) is 5*5, the cells (IIZI,IXXI) and
\* (IXXI,IIZI) are 5*2 and the cell (IXXI,IXXI) is 2*2.
C6_Scenario ==
    (IsScenario /\ calls > 0) =>
        /\ result # None
        /\ R.tensor_paulis = <<IIII, IIZI, IXXI>>
        /\ R.superpos_paulis = <<IIZI, IXXI>>
        /\ R.w_ij[1][0] = 3 /\ R.w_ij[0][1] = 3
        /\ R.w_ij[1][1] = 5 * 5 /\ R.w_ab[0][0] = 5 * 5
        /\ R.w_ij[1][2] = 5 * 2 /\ R.w_ab[0][1] = 5 * 2
        /\ R.w_ij[2][1] = 5 * 2 /\ R.w_ab[1][0] = 5 * 2
        /\ R.w_ij[2][2] = 2 * 2 /\ R.w_ab[1][1] = 2 * 2

\* construct() has returned in the scenario, with the factor's terms listed
\* IXXI first and a complex identity weight in the one-body operator.
C6_Witness ==
    /\ IsScenario
    /\ result # None
    /\ Factors[1][1][1] = IXXI
    /\ WeightIn(Value(h_1_op), IIII)[2] # 0

\* C7: a construct() call ends with an EmptyOperatorError and no returned
\* tuple exactly when no operator has a term of nonzero weight, and returns
\* normally in every other case.
C7_EmptyOperatorError ==
    (pc = "constructed" /\ calls > 0) =>
        /\ (raised = "EmptyOperatorError" /\ result = None) <=> NoNonzeroTerm
        /\ ~NoNonzeroTerm => (raised = NoException /\ result # None)

\* Position of a label in a returned list, from 0.
IndexOf(lst, p) == (CHOOSE n \in 1..Len(lst) : lst[n] = p) - 1

\* What the one-body operator adds to the cell (p, q) of w_ij: Re(w_p) in the
\* identity column and Re(w_q) in the identity row.
OneBodyShare(p, q) ==
    (IF q = IIII THEN WeightIn(Value(h_1_op), p)[1] ELSE 0)
    + (IF p = IIII THEN WeightIn(Value(h_1_op), q)[1] ELSE 0)

\* A one-body operator made of the identity term alone.
IdentityOnly == << <<IIII, <<1, 0>>>> >>

\* C8: whenever construct() returns, every cell (p, q) of w_ij is the sum of
\* the factors' products for (p, q) and of the one-body share, which is
\* Re(w_p) in the identity column plus Re(w_q) in the identity row (so
\* 2*Re(w) of the identity term on the identity diagonal cell) and nothing
\* elsewhere; and w_ab and superpos_paulis are those returned for the same
\* factors with another one-body operator.
C8_OneBody ==
    result # None =>
        /\ \A p \in SeqToSet(R.tensor_paulis) : \A q \in SeqToSet(R.tensor_paulis) :
              R.w_ij[IndexOf(R.tensor_paulis, p)][IndexOf(R.tensor_paulis, q)]
                  = PairSum(Factors, p, q) + OneBodyShare(p, q)
        /\ R.w_ij[IndexOf(R.tensor_paulis, IIII)][IndexOf(R.tensor_paulis, IIII)]
               = PairSum(Factors, IIII, IIII) + 2 * WeightIn(Value(h_1_op), IIII)[1]
        /\ ConstructReturn(IdentityOnly, h_chol_ops).w_ab = R.w_ab
        /\ ConstructReturn(IdentityOnly, h_chol_ops).superpos_paulis = R.superpos_paulis

\* A return for a one-body operator holding the identity term and another
\* term, both with nonzero real part, beside a factor carrying the identity.
C8_Witness ==
    /\ result # None
    /\ WeightIn(Value(h_1_op), IIII)[1] # 0
    /\ \E p \in LabelsOf(Value(h_1_op)) : p # IIII /\ WeightIn(Value(h_1_op), p)[1] # 0
    /\ IIII \in FactorLabels

\* C9: whenever construct() returns, superpos_paulis holds exactly the labels
\* with a nonzero weight in some factor; for all labels p, q of it
\* w_ab[a(p),a(q)] is the sum of Re(w_p * w_q) over the factors giving both a
\* nonzero weight, and w_ij[i(p),i(q)] is the same value when neither p nor q
\* is the identity label.
C9_TwoBody ==
    result # None =>
        /\ SeqToSet(R.superpos_paulis) = FactorLabels
        /\ \A p \in SeqToSet(R.superpos_paulis) : \A q \in SeqToSet(R.superpos_paulis) :
              /\ R.w_ab[IndexOf(R.superpos_paulis, p)][IndexOf(R.superpos_paulis, q)]
                     = PairSum(Factors, p, q)
              /\ (p # IIII /\ q # IIII) =>
                     R.w_ij[IndexOf(R.tensor_paulis, p)][IndexOf(R.tensor_paulis, q)]
                         = R.w_ab[IndexOf(R.superpos_paulis, p)][IndexOf(R.superpos_paulis, q)]

\* A return for two factors that share a label with a complex weight, one of
\* them listing a zero-weight term of a label no factor gives a weight.
C9_Witness ==
    /\ result # None
    /\ \E m \in 1..Len(Factors) : \E n \in 1..Len(Factors) : \E p \in FactorLabels :
          /\ m # n
          /\ WeightIn(Factors[m], p)[2] # 0
          /\ WeightIn(Factors[n], p) # Zero
    /\ \E n \in 1..Len(Factors) : \E p \in LabelsOf(Factors[n]) : p \notin FactorLabels

\* Cell-wise sum of two matrices over the same indices.
MatrixAdd(m1, m2) == [i \in Indices(m1) |-> [j \in Indices(m1[i]) |-> m1[i][j] + m2[i][j]]]

\* <<w_ij, w_ab>> sums of the partial matrices of the dicts gammas, each
\* accumulated on its own from zero matrices.
RECURSIVE PartialSums(_, _, _)
PartialSums(gammas, tensor, superpos) ==
    IF gammas = <<>> THEN <<np_zeros(Len(tensor)), np_zeros(Len(superpos))>>
    ELSE LET own == GammaLoop(<<np_zeros(Len(tensor)), np_zeros(Len(superpos))>>,
                              gammas[1], gammas[1], tensor, superpos)
             rest == PartialSums(Tail(gammas), tensor, superpos)
         IN  <<MatrixAdd(own[1], rest[1]), MatrixAdd(own[2], rest[2])>>

\* C10: whenever construct() returns, it returns the same tuple for every
\* reordering of the factor list, and its matrices are the sums, in any
\* order of the factors, of per-factor partial matrices (plus, for w_ij, the
\* one-body matrix).
C10_FactorOrder ==
    result # None =>
        LET peo == paulis_each_op(hamiltonian_ops(Value(h_1_op), h_chol_ops))
            one == ProcessNonCholesky(np_zeros(Len(R.tensor_paulis)), peo[1],
                                      R.tensor_paulis, IndexOf(R.tensor_paulis, IIII))
        IN  /\ \A chol \in ReorderedFactors(h_chol_ops) :
                  /\ ~ConstructRaises(Value(h_1_op), chol)
                  /\ ConstructReturn(Value(h_1_op), chol) = R
            /\ \A gammas \in Reorderings(Tail(peo)) :
                  LET parts == PartialSums(gammas, R.tensor_paulis, R.superpos_paulis)
                  IN  R.w_ab = parts[2] /\ R.w_ij = MatrixAdd(one, parts[1])

\* A return for two different factors that both give one label a nonzero
\* weight, so that a cell accumulates over both.
C10_Witness ==
    /\ result # None
    /\ Len(Factors) >= 2
    /\ \E m \in 1..Len(Factors) : \E n \in 1..Len(Factors) : \E p \in FactorLabels :
          /\ WeightIn(Factors[m], p) # Zero
          /\ WeightIn(Factors[n], p) # Zero
          /\ WeightIn(Factors[m], p) # WeightIn(Factors[n], p)

====
